---- MODULE Spec2Model ----
(***************************************************************************)
(* Model of src/app.py: a search client for construction-bid announcements.*)
(*                                                                         *)
(* Text is a sequence of characters, each written as a string, so that     *)
(* trimming, digit extraction, substring search and number formatting are  *)
(* computed the way the code computes them.  A Hangul syllable is written  *)
(* by its romanisation: the marker of a negotiated contract is the two     *)
(* characters "su", "ui", and the display labels of col_map are romanised  *)
(* words.  Python values and decoded JSON values are tagged records.       *)
(*                                                                         *)
(* search_bids is a sequence of steps, one action each; parse_money and    *)
(* safe_get_items are also called on their own (SpecMoney, SpecItems).     *)
(* Record fields hold text, as the announcement API delivers them, and     *)
(* numbers stay below 2^31.                                                *)
(***************************************************************************)
EXTENDS Integers, Sequences, FiniteSets, TLC

VARIABLES
    pc,        \* position inside search_bids, or inside a single helper call
    args,      \* the arguments search_bids was called with
    net,       \* what the transport will deliver for the one GET
    params,    \* the outgoing parameter mapping (a function on its keys)
    requests,  \* number of HTTP requests issued
    log,       \* log_lines, one tuple per line
    stages,    \* the stages executed so far, in order
    data,      \* the decoded JSON body
    items,     \* the extracted item list
    df,        \* the working table: [cols, rows]
    table,     \* the table handed back to the caller
    outcome,   \* "none" | "returned" | "raised"
    val,       \* argument of a helper called on its own
    ret        \* its result

vars == <<pc, args, net, params, requests, log, stages, data, items, df,
          table, outcome, val, ret>>

----------------------------------------------------------------------------
(* Bounds of the model *)

MaxLen == 3
MaxRows == 2

----------------------------------------------------------------------------
(* Text *)

DigitChars == {"0", "1", "2", "3", "4", "5", "6", "7", "8", "9"}

Whitespace == {" "}

DigitVal(c) ==
    CASE c = "0" -> 0 [] c = "1" -> 1 [] c = "2" -> 2 [] c = "3" -> 3
      [] c = "4" -> 4 [] c = "5" -> 5 [] c = "6" -> 6 [] c = "7" -> 7
      [] c = "8" -> 8 [] c = "9" -> 9

DigitChar(n) ==
    CASE n = 0 -> "0" [] n = 1 -> "1" [] n = 2 -> "2" [] n = 3 -> "3"
      [] n = 4 -> "4" [] n = 5 -> "5" [] n = 6 -> "6" [] n = 7 -> "7"
      [] n = 8 -> "8" [] n = 9 -> "9"

Front(s) == SubSeq(s, 1, Len(s) - 1)

Last(s) == s[Len(s)]

RECURSIVE DigitsToNat(_)
DigitsToNat(s) ==
    IF s = <<>> THEN 0 ELSE DigitsToNat(Front(s)) * 10 + DigitVal(Last(s))

RECURSIVE NatToDigits(_)
NatToDigits(n) ==
    IF n < 10 THEN <<DigitChar(n)>>
    ELSE Append(NatToDigits(n \div 10), DigitChar(n % 10))

RECURSIVE LStrip(_)
LStrip(s) ==
    IF s # <<>> /\ Head(s) \in Whitespace THEN LStrip(Tail(s)) ELSE s

RECURSIVE RStrip(_)
RStrip(s) ==
    IF s # <<>> /\ Last(s) \in Whitespace THEN RStrip(Front(s)) ELSE s

Strip(s) == RStrip(LStrip(s))

OnlyDigits(s) == SelectSeq(s, LAMBDA c : c \in DigitChars)

Pad2(n) == IF n < 10 THEN <<"0">> \o NatToDigits(n) ELSE NatToDigits(n)

RECURSIVE StringsUpTo(_, _)
StringsUpTo(alphabet, n) ==
    IF n = 0 THEN {<<>>}
    ELSE LET shorter == StringsUpTo(alphabet, n - 1)
         IN  shorter \cup {Append(s, c) : s \in shorter, c \in alphabet}

----------------------------------------------------------------------------
(* Python values *)

None == [k |-> "none"]

PyStr(s) == [k |-> "str", s |-> s]

PyInt(n) == [k |-> "int", n |-> n]

PyFloat(n) == [k |-> "float", n |-> n]

PyDate(y, m, d) == [k |-> "date", y |-> y, m |-> m, d |-> d]

strftime(d) ==
    NatToDigits(d.y) \o <<"-">> \o Pad2(d.m) \o <<"-">> \o Pad2(d.d)

str(v) ==
    CASE v.k = "none" -> <<"N", "o", "n", "e">>
      [] v.k = "str" -> v.s
      [] v.k = "int" -> NatToDigits(v.n)
      [] v.k = "date" -> strftime(v)

Truthy(v) ==
    CASE v.k = "none" -> FALSE
      [] v.k = "str" -> v.s # <<>>
      [] v.k = "int" -> v.n # 0
      [] v.k = "date" -> TRUE

----------------------------------------------------------------------------
(* parse_money *)

parse_money_zero(v) ==
    IF v.k = "none" THEN None
    ELSE LET s == Strip(str(v))
         IN  IF s = <<>> THEN None ELSE PyFloat(DigitsToNat(OnlyDigits(s)))

parse_money(v) ==
    IF v.k = "none" THEN None
    ELSE LET s == Strip(str(v))
         IN  IF s = <<>> THEN None
             ELSE LET d == OnlyDigits(s)
                  IN  IF d = <<>> THEN None ELSE PyFloat(DigitsToNat(d))

----------------------------------------------------------------------------
(* Decoded JSON values *)

JNull == [t |-> "null"]

JStr(s) == [t |-> "str", s |-> s]

JNum(n) == [t |-> "num", n |-> n]

JList(l) == [t |-> "list", l |-> l]

JDict(d) == [t |-> "dict", d |-> d]

EmptyDict == JDict(<<>>)

IsDict(j) == j.t = "dict"

IsList(j) == j.t = "list"

JTruthy(j) ==
    CASE j.t = "null" -> FALSE
      [] j.t = "str" -> j.s # <<>>
      [] j.t = "num" -> j.n # 0
      [] j.t = "list" -> j.l # <<>>
      [] j.t = "dict" -> DOMAIN j.d # {}

\* dict.get(key, default), for a receiver that is a dict
Get(j, key, default) == IF key \in DOMAIN j.d THEN j.d[key] ELSE default

Returned(v) == [ok |-> TRUE, v |-> v]

Raised == [ok |-> FALSE]

----------------------------------------------------------------------------
(* safe_get_items *)

\* The items mapping itself is wrapped: its item key is not descended into.
normalize_items_nodescend(items_) ==
    IF ~JTruthy(items_) THEN <<>>
    ELSE IF IsList(items_) THEN items_.l
    ELSE IF IsDict(items_) THEN <<items_>>
    ELSE <<>>

\* The type of item is not tested: whatever is there gets wrapped.
normalize_items_wrapany(items_) ==
    IF ~JTruthy(items_) THEN <<>>
    ELSE IF IsList(items_) THEN items_.l
    ELSE IF IsDict(items_)
         THEN LET item == Get(items_, "item", JNull)
              IN  IF IsList(item) THEN item.l ELSE <<item>>
    ELSE <<>>

\* Lines 102-115: what is returned for the value found under items
normalize_items(items_) ==
    IF ~JTruthy(items_) THEN <<>>
    ELSE IF IsList(items_) THEN items_.l
    ELSE IF IsDict(items_)
         THEN LET item == Get(items_, "item", JNull)
              IN  IF IsList(item) THEN item.l
                  ELSE IF IsDict(item) THEN <<item>>
                  ELSE <<>>
    ELSE <<>>

\* The body of the try block: .get on a value that is no dict raises.
safe_get_items_try(json_data) ==
    IF ~IsDict(json_data) THEN Raised
    ELSE LET response == Get(json_data, "response", EmptyDict)
         IN  IF ~IsDict(response) THEN Raised
             ELSE LET body == Get(response, "body", EmptyDict)
                  IN  IF ~IsDict(body) THEN Raised
                      ELSE Returned(normalize_items(Get(body, "items", JNull)))

\* Lines 97-117: an exception of the body is turned into the empty list
safe_get_items(json_data) ==
    LET r == safe_get_items_try(json_data)
    IN  IF r.ok THEN r.v ELSE <<>>

----------------------------------------------------------------------------
(* Tables (pandas.DataFrame) *)

\* A missing cell of a column the record does not have
NaN == <<"NaN">>

EmptyTable == [cols |-> <<>>, rows |-> <<>>]

\* Series.astype(str) on one cell
astype_str(cell) == IF cell = NaN THEN <<"n", "a", "n">> ELSE cell

\* Series.str.contains(marker, na=False) on one cell
Contains(s, marker) ==
    \E i \in 0..(Len(s) - Len(marker)) : SubSeq(s, i + 1, i + Len(marker)) = marker

PrivateMarker == <<"su", "ui">>

AllDicts(l) == \A i \in 1..Len(l) : IsDict(l[i])

\* pd.json_normalize on a list of flat records: one column per key that
\* occurs, NaN where a record lacks the key
json_normalize(l) ==
    LET cols == UNION {DOMAIN l[i].d : i \in 1..Len(l)}
    IN  [cols |-> cols,
         rows |-> [i \in 1..Len(l) |->
                     [c \in cols |->
                        IF c \in DOMAIN l[i].d THEN l[i].d[c].s ELSE NaN]]]

\* to_numeric(astype(str).str.replace(non-digits, ""), errors="coerce").fillna(0)
presmpt_num(cell) ==
    LET d == OnlyDigits(astype_str(cell))
    IN  IF d = <<>> THEN 0 ELSE DigitsToNat(d)

with_presmpt_num(t) ==
    [cols |-> t.cols \cup {"_presmpt_num"},
     rows |-> [i \in 1..Len(t.rows) |->
                 [c \in t.cols \cup {"_presmpt_num"} |->
                    IF c = "_presmpt_num"
                    THEN IF "presmptPrce" \in t.cols
                         THEN presmpt_num(t.rows[i]["presmptPrce"])
                         ELSE 0
                    ELSE t.rows[i][c]]]]

Pad3(n) ==
    IF n < 10 THEN <<"0", "0">> \o NatToDigits(n)
    ELSE IF n < 100 THEN <<"0">> \o NatToDigits(n)
    ELSE NatToDigits(n)

\* f"{int(x):,}"
RECURSIVE format_thousands(_)
format_thousands(n) ==
    IF n < 1000 THEN NatToDigits(n)
    ELSE format_thousands(n \div 1000) \o <<",">> \o Pad3(n % 1000)

prefer_cols ==
    <<"bidNtceNo", "bidNtceOrd", "bidNtceNm", "ntceInsttNm", "pblancDate",
      "opengDt", "indstrytyNm", "presmptPrce", "prtcptLmtRgnCd",
      "prtcptLmtRgnNm", "cntrctCnclsMthdNm">>

col_map ==
    [bidNtceNo |-> "gonggobeonho",
     bidNtceOrd |-> "gonggochasu",
     bidNtceNm |-> "gonggomyeong",
     ntceInsttNm |-> "gonggogigwan",
     pblancDate |-> "gonggogesiilsi",
     opengDt |-> "gaechalilsi",
     indstrytyNm |-> "eopjongmyeong",
     presmptPrce |-> "gichogeumaek",
     prtcptLmtRgnCd |-> "chamgajehanjiyeokkodeu",
     prtcptLmtRgnNm |-> "chamgajehanjiyeokmyeong",
     cntrctCnclsMthdNm |-> "gyeyakbangbeop"]

\* The price column keeps the record's raw text.
price_cell_raw(row) == row["presmptPrce"]

price_cell(row) == format_thousands(row["_presmpt_num"])

\* exist = [c for c in prefer_cols if c in df.columns]
exist_cols(t) == SelectSeq(prefer_cols, LAMBDA c : c \in t.cols)

\* One row of df[exist], the price re-rendered, the keys renamed
view_row(row, exist) ==
    LET names == {exist[i] : i \in 1..Len(exist)}
    IN  [label \in {col_map[c] : c \in names} |->
           LET c == CHOOSE c \in names : col_map[c] = label
           IN  IF c = "presmptPrce" THEN price_cell(row) ELSE row[c]]

\* Lines 280-308: df[exist], the price column re-rendered, the columns renamed
df_view(t) ==
    LET exist == exist_cols(t)
    IN  [cols |-> [i \in 1..Len(exist) |-> col_map[exist[i]]],
         rows |-> [r \in 1..Len(t.rows) |-> view_row(t.rows[r], exist)]]

----------------------------------------------------------------------------
(* search_bids: the outgoing parameters *)

normalize_date_str(d) ==
    IF d.k = "none" \/ (d.k = "str" /\ d.s = <<>>) THEN <<>>
    ELSE IF d.k = "date" THEN strftime(d)
    ELSE Strip(str(d))

\* s.replace(c, "")
Remove(s, c) == SelectSeq(s, LAMBDA x : x # c)

Put(p, key, value) == (key :> value) @@ p

\* Only None counts as a missing key.
key_missing_only_none(a) == a.service_key.k = "none"

\* Line 164: not service_key
key_missing(a) == ~Truthy(a.service_key)

\* Lines 168-196.  v.strip() exists on str only: a truthy keyword of
\* another type raises AttributeError, outside the try block.
build_params(a) ==
    LET start_str == normalize_date_str(a.start_date)
        end_str == normalize_date_str(a.end_date)
        inqry_bgn == IF start_str # <<>>
                     THEN Remove(start_str, "-") \o <<"0", "0", "0", "0">>
                     ELSE <<>>
        inqry_end == IF end_str # <<>>
                     THEN Remove(end_str, "-") \o <<"2", "3", "5", "9">>
                     ELSE <<>>
        p0 == [serviceKey |-> str(a.service_key),
               pageNo |-> str(a.page_no),
               numOfRows |-> str(a.num_rows),
               inqryDiv |-> str(a.inqry_div),
               type |-> <<"j", "s", "o", "n">>]
        p1 == IF inqry_bgn # <<>> THEN Put(p0, "inqryBgnDt", inqry_bgn) ELSE p0
        p2 == IF inqry_end # <<>> THEN Put(p1, "inqryEndDt", inqry_end) ELSE p1
        p3 == IF Truthy(a.bid_name)
              THEN Put(p2, "bidNtceNm", Strip(a.bid_name.s)) ELSE p2
        p4 == IF Truthy(a.industry_name)
              THEN Put(p3, "indstrytyNm", Strip(a.industry_name.s)) ELSE p3
        region_code == Strip(str(a.region_code))
        p5 == IF region_code # <<>>
              THEN Put(p4, "prtcptLmtRgnCd",
                       IF Len(region_code) = 1
                       THEN <<"0">> \o region_code ELSE region_code)
              ELSE p4
    IN  IF Truthy(a.bid_name) /\ a.bid_name.k # "str" THEN Raised
        ELSE IF Truthy(a.industry_name) /\ a.industry_name.k # "str" THEN Raised
        ELSE Returned(p5)

----------------------------------------------------------------------------
(* search_bids: the steps *)

\* A return with an empty DataFrame after one more log line
ReturnEmpty(line, stage) ==
    /\ log' = Append(log, line)
    /\ stages' = Append(stages, stage)
    /\ table' = EmptyTable
    /\ outcome' = "returned"
    /\ pc' = "done"

\* No outer handler: the exception reaches the caller.
Propagate(stage) ==
    /\ stages' = Append(stages, stage)
    /\ outcome' = "raised"
    /\ pc' = "done"
    /\ UNCHANGED <<log, table>>

\* Lines 314-316: the outer handler
Except(stage) == ReturnEmpty(<<"EXCEPTION">>, stage)

\* Lines 162-165
CheckKey ==
    /\ pc = "start"
    /\ IF key_missing(args)
       THEN /\ log' = <<<<"NO_SERVICE_KEY">>>>
            /\ table' = EmptyTable
            /\ outcome' = "returned"
            /\ pc' = "done"
       ELSE /\ pc' = "build"
            /\ UNCHANGED <<log, table, outcome>>
    /\ UNCHANGED <<args, net, params, requests, stages, data, items, df,
                   val, ret>>

\* Lines 167-196
BuildParams ==
    /\ pc = "build"
    /\ LET r == build_params(args)
       IN  IF r.ok
           THEN /\ params' = r.v
                /\ pc' = "request"
                /\ UNCHANGED outcome
           ELSE /\ outcome' = "raised"
                /\ pc' = "done"
                /\ UNCHANGED params
    /\ UNCHANGED <<args, net, requests, log, stages, data, items, df, table,
                   val, ret>>

\* Lines 199-200: the one GET; a timeout or network failure raises
Request ==
    /\ pc = "request"
    /\ requests' = requests + 1
    /\ IF net.kind = "fail"
       THEN Except("request")
       ELSE /\ log' = Append(log, <<"REQUEST_DONE">>)
            /\ stages' = Append(stages, "request")
            /\ pc' = "status"
            /\ UNCHANGED <<table, outcome>>
    /\ UNCHANGED <<args, net, params, data, items, df, val, ret>>

\* The failure is logged but the run goes on to parse the body.
CheckStatus_goes_on ==
    /\ pc = "status"
    /\ log' = IF net.status # 200
              THEN Append(log, <<"HTTP_ERROR", net.status>>) ELSE log
    /\ stages' = Append(stages, "status")
    /\ pc' = "parse"
    /\ UNCHANGED <<args, net, params, requests, data, items, df, table,
                   outcome, val, ret>>

\* Lines 202-204
CheckStatus ==
    /\ pc = "status"
    /\ IF net.status # 200
       THEN ReturnEmpty(<<"HTTP_ERROR", net.status>>, "status")
       ELSE /\ stages' = Append(stages, "status")
            /\ pc' = "parse"
            /\ UNCHANGED <<log, table, outcome>>
    /\ UNCHANGED <<args, net, params, requests, data, items, df, val, ret>>

\* Lines 206-211.  What resp.json() raises on a body that is no JSON is a
\* json.JSONDecodeError or, with simplejson installed, an error of another
\* class: the first is handled at line 208, the second by the outer handler.
ParseJson ==
    /\ pc = "parse"
    /\ IF net.json = "JSONDecodeError"
       THEN /\ log' = log \o <<<<"JSON_PARSE_FAILED">>, <<"BODY_EXCERPT">>>>
            /\ stages' = Append(stages, "parse")
            /\ table' = EmptyTable
            /\ outcome' = "returned"
            /\ pc' = "done"
            /\ UNCHANGED data
       ELSE IF net.json = "OtherError"
       THEN /\ Except("parse")
            /\ UNCHANGED data
       ELSE /\ data' = net.body
            /\ stages' = Append(stages, "parse")
            /\ pc' = "header"
            /\ UNCHANGED <<log, table, outcome>>
    /\ UNCHANGED <<args, net, params, requests, items, df, val, ret>>

\* Lines 213-215: data.get("response", {}).get("header", {}), then its
\* resultCode and resultMsg; .get on a value that is no dict raises
read_header(j) ==
    IF ~IsDict(j) THEN Raised
    ELSE LET response == Get(j, "response", EmptyDict)
         IN  IF ~IsDict(response) THEN Raised
             ELSE LET header == Get(response, "header", EmptyDict)
                  IN  IF ~IsDict(header) THEN Raised
                      ELSE Returned([code |-> Get(header, "resultCode", JNull),
                                     msg |-> Get(header, "resultMsg", JNull)])

SuccessCode == JStr(<<"0", "0">>)

\* Lines 213-220
CheckResultCode ==
    /\ pc = "header"
    /\ LET h == read_header(data)
       IN  IF ~h.ok THEN Except("code")
           ELSE IF h.v.code # SuccessCode
           THEN /\ log' = log \o <<<<"API_CODE", h.v.code, h.v.msg>>,
                                   <<"BAD_RESULT_CODE">>>>
                /\ stages' = Append(stages, "code")
                /\ table' = EmptyTable
                /\ outcome' = "returned"
                /\ pc' = "done"
           ELSE /\ log' = Append(log, <<"API_CODE", h.v.code, h.v.msg>>)
                /\ stages' = Append(stages, "code")
                /\ pc' = "extract"
                /\ UNCHANGED <<table, outcome>>
    /\ UNCHANGED <<args, net, params, requests, data, items, df, val, ret>>

\* Lines 222-225
ExtractItems ==
    /\ pc = "extract"
    /\ items' = safe_get_items(data)
    /\ IF items' = <<>>
       THEN ReturnEmpty(<<"NO_DATA">>, "extract")
       ELSE /\ stages' = Append(stages, "extract")
            /\ pc' = "flatten"
            /\ UNCHANGED <<log, table, outcome>>
    /\ UNCHANGED <<args, net, params, requests, data, df, val, ret>>

\* Lines 227-236: json_normalize raises on an element that is no record
Flatten ==
    /\ pc = "flatten"
    /\ IF ~AllDicts(items)
       THEN /\ Except("flatten")
            /\ UNCHANGED df
       ELSE /\ df' = with_presmpt_num(json_normalize(items))
            /\ stages' = Append(stages, "flatten")
            /\ pc' = "price"
            /\ UNCHANGED <<log, table, outcome>>
    /\ UNCHANGED <<args, net, params, requests, data, items, val, ret>>

\* df[mask]: the columns stay, the rows are selected
WithRows(t, rows) == [cols |-> t.cols, rows |-> rows]

AtLeast(t, n) ==
    WithRows(t, SelectSeq(t.rows, LAMBDA r : r["_presmpt_num"] >= n))

AtMost(t, n) ==
    WithRows(t, SelectSeq(t.rows, LAMBDA r : r["_presmpt_num"] <= n))

\* A bound that does not parse excludes every record.
price_filter_strict(t, min_val, max_val) ==
    LET lo == IF min_val.k = "none" THEN WithRows(t, <<>>)
              ELSE AtLeast(t, min_val.n)
    IN  IF max_val.k = "none" THEN WithRows(lo, <<>>) ELSE AtMost(lo, max_val.n)

\* Lines 241-246, the table
price_filter(t, min_val, max_val) ==
    LET lo == IF min_val.k = "none" THEN t ELSE AtLeast(t, min_val.n)
    IN  IF max_val.k = "none" THEN lo ELSE AtMost(lo, max_val.n)

\* Lines 238-246
PriceFilter ==
    /\ pc = "price"
    /\ LET min_val == parse_money(args.min_price)
           max_val == parse_money(args.max_price)
       IN  /\ df' = price_filter(df, min_val, max_val)
           /\ log' = log
                  \o (IF min_val.k = "none" THEN <<>>
                      ELSE <<<<"MIN_FILTER", min_val.n>>>>)
                  \o (IF max_val.k = "none" THEN <<>>
                      ELSE <<<<"MAX_FILTER", max_val.n>>>>)
    /\ stages' = Append(stages, "price")
    /\ pc' = "contract"
    /\ UNCHANGED <<args, net, params, requests, data, items, table, outcome,
                   val, ret>>

is_private(row) == Contains(astype_str(row["cntrctCnclsMthdNm"]), PrivateMarker)

Private(t) == WithRows(t, SelectSeq(t.rows, LAMBDA r : is_private(r)))

NotPrivate(t) == WithRows(t, SelectSeq(t.rows, LAMBDA r : ~is_private(r)))

\* A record without the field counts as a match of the marker.
contract_filter_na_true(t, mode) ==
    LET hit(r) == r["cntrctCnclsMthdNm"] = NaN \/ is_private(r)
    IN  IF "cntrctCnclsMthdNm" \notin t.cols THEN t
        ELSE IF mode = "only_private"
             THEN WithRows(t, SelectSeq(t.rows, LAMBDA r : hit(r)))
        ELSE IF mode = "exclude_private"
             THEN WithRows(t, SelectSeq(t.rows, LAMBDA r : ~hit(r)))
        ELSE t

\* Lines 249-259, the table
contract_filter(t, mode) ==
    IF "cntrctCnclsMthdNm" \notin t.cols THEN t
    ELSE IF mode = "only_private" THEN Private(t)
    ELSE IF mode = "exclude_private" THEN NotPrivate(t)
    ELSE t

\* Lines 249-259, the log line
contract_log(t, mode) ==
    IF "cntrctCnclsMthdNm" \notin t.cols THEN <<"CONTRACT_FILTER_NOT_APPLIED">>
    ELSE IF mode = "only_private" THEN <<"CONTRACT_FILTER", "only_private">>
    ELSE IF mode = "exclude_private" THEN <<"CONTRACT_FILTER", "exclude_private">>
    ELSE <<"CONTRACT_FILTER", "all">>

\* Lines 248-263
ContractFilter ==
    /\ pc = "contract"
    /\ df' = contract_filter(df, args.contract_filter)
    /\ stages' = Append(stages, "contract")
    /\ IF df'.rows = <<>>
       THEN /\ log' = log \o <<contract_log(df, args.contract_filter),
                               <<"NOTHING_LEFT">>>>
            /\ table' = EmptyTable
            /\ outcome' = "returned"
            /\ pc' = "done"
       ELSE /\ log' = Append(log, contract_log(df, args.contract_filter))
            /\ pc' = "project"
            /\ UNCHANGED <<table, outcome>>
    /\ UNCHANGED <<args, net, params, requests, data, items, val, ret>>

\* Lines 265-312
Project ==
    /\ pc = "project"
    /\ table' = df_view(df)
    /\ log' = Append(log, <<"COUNT", Len(df.rows)>>)
    /\ stages' = Append(stages, "project")
    /\ outcome' = "returned"
    /\ pc' = "done"
    /\ UNCHANGED <<args, net, params, requests, data, items, df, val, ret>>

Next ==
    \/ CheckKey
    \/ BuildParams
    \/ Request
    \/ CheckStatus
    \/ ParseJson
    \/ CheckResultCode
    \/ ExtractItems
    \/ Flatten
    \/ PriceFilter
    \/ ContractFilter
    \/ Project

----------------------------------------------------------------------------
(* Inputs *)

T_su_ui == <<"su", "ui", "gye", "yak">>

T_su_ui_small == <<"su", "ui", "gye", "yak", "(", "so", "aek", ")">>

T_general == <<"il", "ban", "gyeong", "jaeng">>

T_1234567 == <<"1", ",", "2", "3", "4", ",", "5", "6", "7">>

T_50m == <<"5", "0", ",", "0", "0", "0", ",", "0", "0", "0">>

T_100m == <<"1", "0", "0", ",", "0", "0", "0", ",", "0", "0", "0">>

T_300m == <<"3", "0", "0", ",", "0", "0", "0", ",", "0", "0", "0">>

Rec(f) == JDict([key \in DOMAIN f |-> JStr(f[key])])

RecA ==
    Rec([bidNtceNo |-> <<"1">>, bidNtceNm |-> <<"a">>,
         presmptPrce |-> <<"1", "2", "3", "4", "5", "6", "7">>,
         cntrctCnclsMthdNm |-> T_su_ui])

RecB ==
    Rec([bidNtceNo |-> <<"2">>, presmptPrce |-> <<"5", "0", "0">>,
         cntrctCnclsMthdNm |-> T_general])

RecC == Rec([presmptPrce |-> <<"a">>, dminsttNm |-> <<"x">>])

RecD == Rec([opengDt |-> <<"d">>, cntrctCnclsMthdNm |-> <<"su", "x", "ui">>])

RecE == Rec([bidNtceNo |-> <<"5">>, presmptPrce |-> <<"9", "0", "0", " ">>])

SampleRecords == {RecA, RecB, RecC, RecD, RecE}

PriceRec(no, price) == Rec([bidNtceNo |-> <<no>>, presmptPrce |-> price])

PriceScenario ==
    <<PriceRec("1", <<"0">>), PriceRec("2", T_50m), PriceRec("3", T_100m),
      PriceRec("4", T_300m)>>

MethodRec(no, method) == Rec([bidNtceNo |-> <<no>>, cntrctCnclsMthdNm |-> method])

ContractScenario ==
    <<MethodRec("1", T_general), MethodRec("2", T_su_ui),
      MethodRec("3", T_su_ui_small), Rec([bidNtceNo |-> <<"4">>])>>

RECURSIVE ListsUpTo(_, _)
ListsUpTo(S, n) ==
    IF n = 0 THEN {<<>>}
    ELSE LET shorter == ListsUpTo(S, n - 1)
         IN  shorter \cup {Append(l, x) : l \in shorter, x \in S}

ItemLists == ListsUpTo(SampleRecords, MaxRows) \cup {PriceScenario, ContractScenario}

\* items values the sentence "a list of N records / one record" speaks of
RecordShapes ==
    {JList(l) : l \in ItemLists}
    \cup {JDict("item" :> JList(l)) : l \in ItemLists}
    \cup {JDict("item" :> r) : r \in SampleRecords}

\* items values of other kinds
OtherShapes ==
    {JNull, JStr(<<>>), EmptyDict, JNum(0), JNum(5), JStr(<<"x">>),
     JList(<<JNum(1), JStr(<<"x">>)>>), JList(<<RecA, JNum(1)>>),
     JDict("item" :> JNum(5)), JDict("item" :> JStr(<<"x">>)),
     JDict("item" :> JNull), JDict("other" :> RecA),
     JDict("item" :> JList(<<JNum(1)>>)), JDict("item" :> EmptyDict)}

Header(code, msg) == JDict([resultCode |-> code, resultMsg |-> msg])

OkHeader == Header(SuccessCode, JStr(<<"O", "K">>))

Headers ==
    {Header(JStr(<<"0", "3">>), JStr(<<"N", "O">>)), Header(JNum(0), JNull),
     EmptyDict, JStr(<<"x">>)}

Envelope(header, body) == JDict([header |-> header, body |-> body])

Bodies ==
    {JDict("response" :> Envelope(OkHeader, JDict("items" :> x))) :
        x \in RecordShapes \cup OtherShapes}
    \cup {JDict("response" :> Envelope(OkHeader, b)) :
            b \in {EmptyDict, JStr(<<"x">>), JList(<<RecA>>), JNull, JNum(1)}}
    \cup {JDict("response" :> Envelope(h, JDict("items" :> JList(<<RecA>>)))) :
            h \in Headers}
    \cup {JDict("response" :> r) :
            r \in {EmptyDict, JStr(<<"x">>), JList(<<RecA>>), JNull,
                   JDict("header" :> OkHeader)}}
    \cup {EmptyDict, JDict("body" :> JDict("items" :> JList(<<RecA>>))),
          JList(<<RecA>>), JStr(<<"x">>), JNull, JNum(1)}

Http(status, json, body) ==
    [kind |-> "http", status |-> status, json |-> json, body |-> body]

FailNet == [kind |-> "fail", status |-> 0, json |-> "ok", body |-> JNull]

Nets ==
    {FailNet, Http(500, "ok", JNull), Http(404, "JSONDecodeError", JNull),
     Http(200, "JSONDecodeError", JNull), Http(200, "OtherError", JNull)}
    \cup {Http(200, "ok", b) : b \in Bodies}

QueryNets ==
    {FailNet, Http(500, "ok", JNull), Http(200, "JSONDecodeError", JNull)}
    \cup {Http(200, "ok", JDict("response" :> Envelope(OkHeader, JDict("items" :> x)))) :
            x \in {JList(<<RecA, RecB>>), JNull, JList(<<JNum(1)>>)}}
    \cup {Http(200, "ok",
               JDict("response" :>
                   Envelope(Header(JStr(<<"0", "3">>), JNull), EmptyDict)))}

BaseArgs ==
    [service_key |-> PyStr(<<"K">>),
     start_date |-> PyDate(2024, 1, 5),
     end_date |-> PyDate(2024, 1, 31),
     inqry_div |-> PyInt(1),
     bid_name |-> PyStr(<<>>),
     industry_name |-> PyStr(<<>>),
     region_code |-> PyStr(<<>>),
     min_price |-> PyStr(<<>>),
     max_price |-> PyStr(<<>>),
     contract_filter |-> "all",
     page_no |-> PyInt(1),
     num_rows |-> PyInt(100)]

MinPrices ==
    {None, PyStr(<<>>), PyStr(<<"a">>), PyStr(<<"1", ",", "0", "0", "0">>),
     PyStr(T_100m)}

MaxPrices ==
    {PyStr(<<>>), PyStr(<<" ">>), PyStr(<<"6", "0", "0">>), PyStr(T_300m)}

ContractFilters == {"all", "only_private", "exclude_private"}

FilterArgs ==
    {[BaseArgs EXCEPT !.min_price = lo, !.max_price = hi, !.contract_filter = m] :
        lo \in MinPrices, hi \in MaxPrices, m \in ContractFilters}

Keys == {None, PyStr(<<>>), PyStr(<<" ">>), PyStr(<<"K">>)}

StartDates ==
    {None, PyStr(<<>>), PyStr(<<" ">>), PyDate(2024, 1, 5),
     PyStr(<<"2", "0", "2", "4", "-", "0", "1", "-", "0", "5">>)}

EndDates == {PyStr(<<>>), PyDate(2024, 12, 31)}

Keywords ==
    {None, PyStr(<<>>), PyStr(<<" ">>), PyStr(<<" ", " ">>), PyStr(<<"a">>),
     PyStr(<<" ", "a", " ">>)}

Industries == {PyStr(<<>>), PyStr(<<" ">>), PyStr(<<"a", " ">>)}

RegionCodes ==
    {PyInt(7), PyStr(<<>>), PyStr(<<" ">>), PyStr(<<"7">>),
     PyStr(<<" ", "7", " ">>), PyStr(<<"4", "1">>)}

QueryArgs ==
    {[BaseArgs EXCEPT !.service_key = key, !.start_date = sd, !.end_date = ed,
                      !.bid_name = bn, !.industry_name = ind,
                      !.region_code = rc] :
        key \in Keys, sd \in StartDates, ed \in EndDates, bn \in Keywords,
        ind \in Industries, rc \in RegionCodes}

MoneyAlphabet == {"1", "0", " ", ",", "a"}

MoneyInputs ==
    {None, PyInt(0), PyInt(987)}
    \cup {PyStr(s) : s \in StringsUpTo(MoneyAlphabet, MaxLen)}
    \cup {PyStr(T_1234567),
          PyStr(<<" ", " ", "9", " ", "8", " ", "7", " ", " ">>),
          PyStr(<<"a", "b", "c">>),
          PyStr(<<" ", " ">>)}

----------------------------------------------------------------------------
(* Specifications *)

Fresh ==
    /\ params = <<>> /\ requests = 0 /\ log = <<>> /\ stages = <<>>
    /\ data = JNull /\ items = <<>> /\ df = EmptyTable /\ table = EmptyTable
    /\ outcome = "none"

\* search_bids over the responses and the client-side filters
Init ==
    /\ pc = "start"
    /\ args \in FilterArgs
    /\ net \in Nets
    /\ val = None /\ ret = None
    /\ Fresh

Spec == Init /\ [][Next]_vars

\* search_bids over the criteria that shape the request
InitQuery ==
    /\ pc = "start"
    /\ args \in QueryArgs
    /\ net \in QueryNets
    /\ val = None /\ ret = None
    /\ Fresh

SpecQuery == InitQuery /\ [][Next]_vars

\* parse_money called on its own
InitMoney ==
    /\ pc = "parse_money"
    /\ val \in MoneyInputs
    /\ ret = None
    /\ args = BaseArgs /\ net = FailNet
    /\ Fresh

CallParseMoney ==
    /\ pc = "parse_money"
    /\ ret' = parse_money(val)
    /\ pc' = "parse_money_done"
    /\ UNCHANGED <<args, net, params, requests, log, stages, data, items, df,
                   table, outcome, val>>

NextMoney == CallParseMoney

SpecMoney == InitMoney /\ [][NextMoney]_vars

\* safe_get_items called on its own
InitItems ==
    /\ pc = "safe_get_items"
    /\ val \in Bodies
    /\ ret = <<>>
    /\ args = BaseArgs /\ net = FailNet
    /\ Fresh

CallSafeGetItems ==
    /\ pc = "safe_get_items"
    /\ ret' = safe_get_items(val)
    /\ pc' = "safe_get_items_done"
    /\ UNCHANGED <<args, net, params, requests, log, stages, data, items, df,
                   table, outcome, val>>

NextItems == CallSafeGetItems

SpecItems == InitItems /\ [][NextItems]_vars

----------------------------------------------------------------------------
(* Vocabulary of the properties, stated on inputs and results only *)

HasDigit(s) == \E i \in 1..Len(s) : s[i] \in DigitChars

\* The number written by the digit characters of s, read left to right
RECURSIVE NumberWritten(_, _)
NumberWritten(s, acc) ==
    IF s = <<>> THEN acc
    ELSE IF Head(s) \in DigitChars
         THEN NumberWritten(Tail(s), 10 * acc + DigitVal(Head(s)))
         ELSE NumberWritten(Tail(s), acc)

OnlyWhitespace(s) == \A i \in 1..Len(s) : s[i] \in Whitespace

\* The text of an argument; an absent argument has none
TextOf(v) == IF v.k = "none" THEN <<>> ELSE str(v)

----------------------------------------------------------------------------
(* parse_money, under SpecMoney *)

\* C8: parse_money returns None exactly when its input is absent, empty,
\* whitespace-only or without a digit character, and otherwise the number
\* written by the input's digit characters in order, the other characters
\* dropped: "1,234,567" gives 1234567 and "  9 8 7  " gives 987.
C8_ParseMoney ==
    pc = "parse_money_done" =>
        /\ ret = None <=> (val.k = "none" \/ OnlyWhitespace(TextOf(val))
                           \/ ~HasDigit(TextOf(val)))
        /\ ret # None => ret = PyFloat(NumberWritten(TextOf(val), 0))
        /\ val = PyStr(T_1234567) => ret = PyFloat(1234567)
        /\ val = PyStr(<<" ", " ", "9", " ", "8", " ", "7", " ", " ">>)
              => ret = PyFloat(987)

C8_Witness ==
    /\ pc = "parse_money_done"
    /\ val = PyStr(T_1234567)
    /\ ret = PyFloat(1234567)

----------------------------------------------------------------------------
(* safe_get_items, under SpecItems *)

Has(j, key) == IsDict(j) /\ key \in DOMAIN j.d

\* The envelope has a response mapping holding a body mapping
HasBody(e) ==
    /\ Has(e, "response") /\ Has(e.d["response"], "body")
    /\ IsDict(e.d["response"].d["body"])

BodyOf(e) == e.d["response"].d["body"]

RecordList(j) == IsList(j) /\ \A i \in 1..Len(j.l) : IsDict(j.l[i])

\* C4: for the well-formed envelope shapes safe_get_items returns the
\* normalized item list: items absent or empty gives the empty list, items a
\* list of N records gives those records in order, items a mapping whose item
\* is one record gives that record alone, items a mapping whose item is a list
\* of N records gives those records in order.
C4_WellFormedShapes ==
    (pc = "safe_get_items_done" /\ HasBody(val)) =>
        /\ ~Has(BodyOf(val), "items") => ret = <<>>
        /\ Has(BodyOf(val), "items") =>
             LET x == BodyOf(val).d["items"]
             IN  /\ x \in {JList(<<>>), EmptyDict} => ret = <<>>
                 /\ RecordList(x) => ret = x.l
                 /\ (Has(x, "item") /\ IsDict(x.d["item"])) => ret = <<x.d["item"]>>
                 /\ (Has(x, "item") /\ RecordList(x.d["item"])) => ret = x.d["item"].l

C4_Witness ==
    /\ pc = "safe_get_items_done"
    /\ HasBody(val) /\ Has(BodyOf(val), "items")
    /\ BodyOf(val).d["items"] = JDict("item" :> RecB)
    /\ ret = <<RecB>>

\* The envelopes C5 calls malformed or partial
BrokenPath(e) ==
    \/ ~IsDict(e)
    \/ ~Has(e, "response")
    \/ ~IsDict(e.d["response"])
    \/ (Has(e.d["response"], "body") /\ ~IsDict(e.d["response"].d["body"]))

Scalar(j) == j.t \in {"str", "num"}

\* A list holding something that is no mapping
ListOfOthers(j) == IsList(j) /\ \E i \in 1..Len(j.l) : ~IsDict(j.l[i])

UnexpectedItems(e) ==
    /\ HasBody(e) /\ Has(BodyOf(e), "items")
    /\ LET x == BodyOf(e).d["items"]
       IN  \/ Scalar(x)
           \/ ListOfOthers(x)
           \/ (Has(x, "item") /\ ~IsList(x.d["item"]) /\ ~IsDict(x.d["item"]))

\* C5 as stated: every malformed or partial envelope, a list of non-mappings
\* under items included, gives the empty list.
C5_Original ==
    (pc = "safe_get_items_done" /\ (BrokenPath(val) \/ UnexpectedItems(val)))
        => ret = <<>>

\* C5, amended: a broken path to items, a scalar items value, and an item that
\* is neither list nor mapping give the empty list; a list found under items
\* is returned as it is, whatever its elements are.  No exception leaves the
\* function: every call ends with a list.
C5_Malformed ==
    pc = "safe_get_items_done" =>
        /\ BrokenPath(val) => ret = <<>>
        /\ UnexpectedItems(val) =>
             LET x == BodyOf(val).d["items"]
             IN  IF ListOfOthers(x) THEN ret = x.l ELSE ret = <<>>
        /\ ~safe_get_items_try(val).ok => ret = <<>>

C5_Witness ==
    /\ pc = "safe_get_items_done"
    /\ UnexpectedItems(val)
    /\ BodyOf(val).d["items"] = JDict("item" :> JNum(5))
    /\ ret = <<>>

----------------------------------------------------------------------------
(* search_bids: the request, under SpecQuery *)

\* A criterion that is given: present and not made of whitespace alone
NonBlank(v) == v.k # "none" /\ ~OnlyWhitespace(str(v))

SentOnlyIfGiven(key, criterion) ==
    /\ key \in DOMAIN params <=> NonBlank(criterion)
    /\ key \in DOMAIN params => params[key] # <<>>

\* C1 as stated: once the request is reached, each of the five optional
\* parameters is in the outgoing mapping only when its criterion is
\* non-blank, whitespace-only text counting as blank, and none of them is
\* sent as the empty string.
C1_Original ==
    requests >= 1 =>
        /\ SentOnlyIfGiven("inqryBgnDt", args.start_date)
        /\ SentOnlyIfGiven("inqryEndDt", args.end_date)
        /\ SentOnlyIfGiven("bidNtceNm", args.bid_name)
        /\ SentOnlyIfGiven("indstrytyNm", args.industry_name)
        /\ SentOnlyIfGiven("prtcptLmtRgnCd", args.region_code)

\* The run ended at the credential test: nothing built, nothing sent
StoppedAtKey ==
    /\ pc \in {"start", "done"}
    /\ requests = 0 /\ params = <<>> /\ stages = <<>>
    /\ pc = "done" =>
         /\ outcome = "returned"
         /\ table = EmptyTable
         /\ log = <<<<"NO_SERVICE_KEY">>>>

\* C3 as stated: a blank credential, whitespace-only text included, never
\* leads to a request; the call returns an empty table and the log line for
\* the missing credential before any parameter is built.
C3_Original ==
    (args.service_key.k = "none" \/ OnlyWhitespace(str(args.service_key)))
        => StoppedAtKey

\* C3, amended: a credential that is None or the empty string never leads to
\* a request; the call returns an empty table and the log line for the
\* missing credential before any parameter is built.
C3_EmptyKey ==
    (args.service_key.k = "none" \/ str(args.service_key) = <<>>)
        => StoppedAtKey

C3_Witness ==
    /\ args.service_key = PyStr(<<>>)
    /\ pc = "done"
    /\ requests = 0
    /\ table = EmptyTable
    /\ log = <<<<"NO_SERVICE_KEY">>>>

----------------------------------------------------------------------------
(* search_bids: the result, under Spec *)

LogHas(tag) == \E i \in 1..Len(log) : log[i][1] = tag

HeaderGiven(b) ==
    /\ Has(b, "response") /\ Has(b.d["response"], "header")
    /\ IsDict(b.d["response"].d["header"])

CodeOf(b) == Get(b.d["response"].d["header"], "resultCode", JNull)

MsgOf(b) == Get(b.d["response"].d["header"], "resultMsg", JNull)

\* One of the error kinds happened in this run
ErrorKind ==
    \/ TextOf(args.service_key) = <<>>
    \/ net.kind = "fail"
    \/ net.status # 200
    \/ net.json # "ok"
    \/ ~HeaderGiven(net.body)
    \/ CodeOf(net.body) # SuccessCode
    \/ \E i \in 1..Len(items) : ~IsDict(items[i])
    \/ \E tag \in {"NO_SERVICE_KEY", "HTTP_ERROR", "JSON_PARSE_FAILED",
                   "BAD_RESULT_CODE", "NO_DATA", "NOTHING_LEFT", "EXCEPTION"} :
          LogHas(tag)

PriceOfRecord(rec) ==
    IF Has(rec, "presmptPrce") THEN NumberWritten(rec.d["presmptPrce"].s, 0) ELSE 0

\* A bound is in force when it is supplied and has a digit to parse
InForce(v) == v.k # "none" /\ HasDigit(str(v))

InRange(n) ==
    /\ InForce(args.min_price) => n >= NumberWritten(str(args.min_price), 0)
    /\ InForce(args.max_price) => n <= NumberWritten(str(args.max_price), 0)

KeptByPrice == SelectSeq(items, LAMBDA rec : InRange(PriceOfRecord(rec)))

\* The table row of a record: its fields as they came, and its derived price
RowOf(row, rec) ==
    /\ row["_presmpt_num"] = PriceOfRecord(rec)
    /\ \A key \in DOMAIN rec.d : row[key] = rec.d[key].s

Holds(t, records) ==
    /\ Len(t.rows) = Len(records)
    /\ \A i \in 1..Len(records) : RowOf(t.rows[i], records[i])

\* C6: every record's derived price is the number written by the digits of
\* its presmptPrce, or 0 without the field or without digits; a minimum that
\* is supplied and parses keeps exactly the records priced at or above it, a
\* maximum exactly those at or below it; a blank or unparsable bound removes
\* no record.  With prices 0, 50,000,000, 100,000,000 and 300,000,000 the
\* range 100,000,000..300,000,000 keeps the last two.
C6_PriceRange ==
    /\ pc = "price" => Holds(df, items)
    /\ pc = "contract" =>
         /\ Holds(df, KeptByPrice)
         /\ (~InForce(args.min_price) /\ ~InForce(args.max_price))
               => Len(df.rows) = Len(items)
         /\ (items = PriceScenario /\ args.min_price = PyStr(T_100m)
               /\ args.max_price = PyStr(T_300m))
               => /\ Len(df.rows) = 2
                  /\ df.rows[1]["bidNtceNo"] = <<"3">>
                  /\ df.rows[2]["bidNtceNo"] = <<"4">>

C6_Witness ==
    /\ pc = "contract"
    /\ items = PriceScenario
    /\ args.min_price = PyStr(T_100m)
    /\ args.max_price = PyStr(T_300m)
    /\ Len(df.rows) = 2
    /\ df.rows[1]["_presmpt_num"] = 100000000

MethodField == "cntrctCnclsMthdNm"

FieldOccurs == \E i \in 1..Len(items) : Has(items[i], MethodField)

HasMarker(rec) ==
    /\ Has(rec, MethodField)
    /\ LET s == rec.d[MethodField].s
       IN  \E i \in 1..(Len(s) - 1) : s[i] = "su" /\ s[i + 1] = "ui"

KeptByContract ==
    IF ~FieldOccurs THEN KeptByPrice
    ELSE IF args.contract_filter = "only_private"
         THEN SelectSeq(KeptByPrice, LAMBDA rec : HasMarker(rec))
    ELSE IF args.contract_filter = "exclude_private"
         THEN SelectSeq(KeptByPrice, LAMBDA rec : ~HasMarker(rec))
    ELSE KeptByPrice

AfterContract == stages # <<>> /\ Last(stages) = "contract"

\* C7: when the contract-method field occurs in some record, only_private
\* keeps exactly the records whose text holds the marker, exclude_private
\* exactly those whose text does not, all keeps every record; a record
\* without the field is dropped by only_private and kept by exclude_private
\* and raises nothing.  When no record has the field no record is removed
\* and the log says the filter was not applied.
C7_ContractFilter ==
    AfterContract =>
        /\ Holds(df, KeptByContract)
        /\ LogHas("CONTRACT_FILTER_NOT_APPLIED") <=> ~FieldOccurs
        /\ LogHas("CONTRACT_FILTER") <=> FieldOccurs
        /\ outcome # "raised" /\ ~LogHas("EXCEPTION")

C7_Witness ==
    /\ AfterContract
    /\ items = ContractScenario
    /\ args.contract_filter = "exclude_private"
    /\ args.min_price = PyStr(<<>>) /\ args.max_price = PyStr(<<>>)
    /\ Len(df.rows) = 2
    /\ df.rows[1]["bidNtceNo"] = <<"1">>
    /\ df.rows[2]["bidNtceNo"] = <<"4">>
    /\ df.rows[2][MethodField] = NaN

Occurs(column) == \E i \in 1..Len(items) : Has(items[i], column)

Range(s) == {s[i] : i \in 1..Len(s)}

\* The place of a display label in the display list
PlaceOf(label) ==
    CHOOSE i \in 1..Len(prefer_cols) : col_map[prefer_cols[i]] = label

\* text is n written in decimal with a comma before every group of three
Grouped(text, n) ==
    /\ text # <<>>
    /\ \A i \in 1..Len(text) :
          IF (Len(text) - i + 1) % 4 = 0
          THEN text[i] = "," /\ i > 1
          ELSE text[i] \in DigitChars
    /\ Len(text) > 1 => text[1] # "0"
    /\ NumberWritten(text, 0) = n

NonEmptyResult == pc = "done" /\ outcome = "returned" /\ table.rows # <<>>

\* C9: in every non-empty result the columns are the display-list columns
\* that occur in the data, under their display labels and in display-list
\* order; a listed column that does not occur is left out; _presmpt_num is
\* no column of the result; and the price column of each row is the derived
\* price with its thousands grouped, not the raw text.
C9_DisplayColumns ==
    NonEmptyResult =>
        /\ \A i \in 1..Len(prefer_cols) :
              Occurs(prefer_cols[i]) <=> col_map[prefer_cols[i]] \in Range(table.cols)
        /\ \A j \in 1..Len(table.cols) :
              \E i \in 1..Len(prefer_cols) : table.cols[j] = col_map[prefer_cols[i]]
        /\ \A j \in 1..Len(table.cols) : \A k \in 1..Len(table.cols) :
              j < k => PlaceOf(table.cols[j]) < PlaceOf(table.cols[k])
        /\ "_presmpt_num" \notin Range(table.cols)
        /\ Len(table.rows) = Len(KeptByContract)
        /\ \A r \in 1..Len(table.rows) :
              /\ DOMAIN table.rows[r] = Range(table.cols)
              /\ col_map["presmptPrce"] \in Range(table.cols) =>
                    Grouped(table.rows[r][col_map["presmptPrce"]],
                            PriceOfRecord(KeptByContract[r]))

C9_Witness ==
    /\ NonEmptyResult
    /\ items = <<RecA>>
    /\ table.cols = <<"gonggobeonho", "gonggomyeong", "gichogeumaek",
                      "gyeyakbangbeop">>
    /\ table.rows[1]["gichogeumaek"] = T_1234567

StageOrder ==
    <<"request", "status", "parse", "code", "extract", "flatten", "price",
      "contract", "project">>

IsPrefix(s, t) == Len(s) <= Len(t) /\ SubSeq(t, 1, Len(s)) = s

\* C10: the stages run in the fixed order status check, JSON parse,
\* result-code check, item extraction, filtering, projection, none twice, and
\* the first that fails ends the run with an empty table: a status other
\* than 200 is logged and nothing is parsed; a parse failure reads no result
\* code; a result code other than "00" is logged with its message and no item
\* is extracted; an empty item list is logged as no data and no filter runs.
C10_StageOrder ==
    /\ IsPrefix(stages, StageOrder)
    /\ requests <= 1
    /\ (pc = "done" /\ requests = 1 /\ net.kind = "http") =>
         /\ Last(stages) # "project" => table = EmptyTable
         /\ net.status # 200 =>
              /\ stages = <<"request", "status">>
              /\ Last(log) = <<"HTTP_ERROR", net.status>>
              /\ data = JNull
         /\ (net.status = 200 /\ net.json # "ok") =>
              /\ stages = <<"request", "status", "parse">>
              /\ LogHas("JSON_PARSE_FAILED") \/ LogHas("EXCEPTION")
              /\ data = JNull
              /\ ~LogHas("API_CODE")
         /\ (net.status = 200 /\ net.json = "ok" /\ HeaderGiven(net.body)
               /\ CodeOf(net.body) # SuccessCode) =>
              /\ stages = <<"request", "status", "parse", "code">>
              /\ \E i \in 1..Len(log) :
                    log[i] = <<"API_CODE", CodeOf(net.body), MsgOf(net.body)>>
              /\ items = <<>>
         /\ Last(stages) = "extract" =>
              /\ LogHas("NO_DATA")
              /\ items = <<>> /\ df = EmptyTable
              /\ ~LogHas("MIN_FILTER") /\ ~LogHas("MAX_FILTER")
              /\ ~LogHas("CONTRACT_FILTER")

C10_Witness ==
    /\ pc = "done"
    /\ net.kind = "http" /\ net.status = 500
    /\ stages = <<"request", "status">>
    /\ LogHas("HTTP_ERROR")
    /\ data = JNull
    /\ table = EmptyTable

====
